---- MODULE Spec2Model ----
(***************************************************************************)
(* A model of search_engine.py: clean(), Document and SearchEngine.         *)
(*                                                                         *)
(* Strings are sequences of one-character strings.  A float is modelled    *)
(* exactly where the code divides two integers (a fraction [n, d] in       *)
(* lowest terms) and in fixed point, in millionths, where it takes a       *)
(* natural logarithm; IEEE rounding is not modelled.                       *)
(***************************************************************************)
EXTENDS Integers, Sequences, FiniteSets, TLC

\* Bounds of the model.
MaxFiles == 3
MaxCorpusWords == 3
MaxQuery == 2
MaxTokenLen == 2

(***************************************************************************)
(* Characters, each a string.  "e/" and "E/" stand for a non-ASCII letter *)
(* (e-acute) in lower and upper case, "!" and "?" for punctuation.         *)
(***************************************************************************)
Chars == {"a", "b", "A", "B", "1", "_", "e/", "E/", "!", "?"}

Space == " "

\* str.lower() on one character.
Lower(c) ==
    CASE c = "A" -> "a"
      [] c = "B" -> "b"
      [] c = "E/" -> "e/"
      [] OTHER -> c

\* A character the str pattern \w matches: a Unicode letter or digit, or "_".
IsWordChar(c) == c \in {"a", "b", "A", "B", "1", "_", "e/", "E/"}

\* clean() without the call of lower().
cleanNoLower(token) == SelectSeq(token, IsWordChar)

\* clean(): token.lower(), then every match of \W+ replaced by "".
clean(token) ==
    SelectSeq([i \in 1..Len(token) |-> Lower(token[i])], IsWordChar)

(***************************************************************************)
(* str.split(): the maximal runs of non-whitespace characters.             *)
(***************************************************************************)
RECURSIVE SplitFrom(_, _, _, _)
SplitFrom(s, i, cur, acc) ==
    IF i > Len(s)
    THEN IF cur = <<>> THEN acc ELSE Append(acc, cur)
    ELSE IF s[i] = Space
         THEN SplitFrom(s, i + 1, <<>>, IF cur = <<>> THEN acc ELSE Append(acc, cur))
         ELSE SplitFrom(s, i + 1, Append(cur, s[i]), acc)

Split(s) == SplitFrom(s, 1, <<>>, <<>>)

(***************************************************************************)
(* Numbers.                                                                *)
(***************************************************************************)
RECURSIVE GCD(_, _)
GCD(a, b) == IF b = 0 THEN a ELSE GCD(b, a % b)

Abs(x) == IF x < 0 THEN -x ELSE x

\* The float n / d, d > 0, as a fraction in lowest terms.
Frac(n, d) ==
    LET g == GCD(Abs(n), d)
    IN  [n |-> n \div g, d |-> d \div g]

FracAdd(x, y) == Frac(x.n * y.d + y.n * x.d, x.d * y.d)

FracScale(k, x) == Frac(k * x.n, x.d)

FracLess(x, y) == x.n * y.d < y.n * x.d

FracZero == [n |-> 0, d |-> 1]

\* math.log(n) for a positive integer n, in millionths; additive over products.
LnMicro(n) ==
    CASE n = 1 -> 0
      [] n = 2 -> 693147
      [] n = 3 -> 1098612
      [] n = 4 -> 1386294
      [] n = 5 -> 1609438
      [] n = 6 -> 1791759
      [] n = 7 -> 1945910
      [] n = 8 -> 2079441

\* math.log of the inverse quotient, d / n.
LogInverted(n, d) == LnMicro(d) - LnMicro(n)

\* math.log(n / d) for positive integers n and d.
Log(n, d) == LnMicro(n) - LnMicro(d)

(***************************************************************************)
(* Inputs.                                                                 *)
(***************************************************************************)
\* The raw words that files and queries are made of.
Words == { <<"a">>, <<"B", "!">>, <<"?">> }

RECURSIVE SeqsUpTo(_, _)
SeqsUpTo(S, n) ==
    IF n = 0 THEN { <<>> }
    ELSE LET shorter == SeqsUpTo(S, n - 1)
         IN  shorter \cup { Append(s, x) : s \in shorter, x \in S }

RECURSIVE Join(_)
Join(ws) ==
    IF ws = <<>> THEN <<>>
    ELSE IF Len(ws) = 1 THEN ws[1]
    ELSE ws[1] \o <<Space>> \o Join(Tail(ws))

\* File contents and queries: up to n words separated by one space.
Texts(n) == { Join(ws) : ws \in SeqsUpTo(Words, n) }

\* The arguments of _calculate_idf and term_frequency: raw words, the terms
\* they normalize to, and the empty string.
Terms == Words \cup { clean(w) : w \in Words }

Contents == Texts(MaxCorpusWords)

Queries == Texts(MaxQuery)

Tokens == SeqsUpTo(Chars, MaxTokenLen)

Range(f) == { f[i] : i \in DOMAIN f }

(***************************************************************************)
(* Document.                                                               *)
(***************************************************************************)
\* The counting loop of Document.__init__: term_freq before it is normalized.
WordCounts(words) ==
    LET terms == { clean(words[i]) : i \in DOMAIN words } \ { <<>> }
    IN  [t \in terms |-> Cardinality({ i \in DOMAIN words : clean(words[i]) = t })]

\* total_words taken as the number of words that survive clean().
TotalCleanWords(words) ==
    LET kept == { i \in DOMAIN words : clean(words[i]) # <<>> }
    IN  IF kept # {} THEN Cardinality(kept) ELSE 1

\* total_words of Document.__init__.
TotalWords(words) == IF words # <<>> THEN Len(words) ELSE 1

\* Document(path), the file at path holding content.
Document(path, content) ==
    LET words  == Split(content)
        counts == WordCounts(words)
    IN  [path      |-> path,
         words     |-> words,
         term_freq |-> [t \in DOMAIN counts |-> Frac(counts[t], TotalWords(words))]]

\* Document.term_frequency(term).
term_frequency(doc, term) ==
    LET t == clean(term)
    IN  IF t \in DOMAIN doc.term_freq THEN doc.term_freq[t] ELSE FracZero

\* Document.get_words().
get_words(doc) == DOMAIN doc.term_freq

(***************************************************************************)
(* SearchEngine.  A Document object is named by its position in docs, the  *)
(* order in which the objects were created.                                *)
(***************************************************************************)
EmptyEngine == [count |-> 0, all_index |-> <<>>, docs |-> <<>>]

\* The inner loop of SearchEngine.__init__: new_doc appended under each of
\* its words.
IndexWords(all_index, words, d) ==
    [t \in DOMAIN all_index \cup words |->
        IF t \in words
        THEN IF t \in DOMAIN all_index THEN Append(all_index[t], d) ELSE <<d>>
        ELSE all_index[t]]

\* The loop of __init__ run over new_doc.words, each word cleaned, instead of
\* over new_doc.get_words().
RECURSIVE IndexEach(_, _, _)
IndexEach(all_index, ws, d) ==
    IF ws = <<>> THEN all_index
    ELSE IndexEach(IndexWords(all_index, { clean(Head(ws)) }, d), Tail(ws), d)

AddFileRawWords(e, path, content) ==
    LET new_doc == Document(path, content)
        d       == Len(e.docs) + 1
    IN  [count     |-> e.count + 1,
         all_index |-> IndexEach(e.all_index, new_doc.words, d),
         docs      |-> Append(e.docs, new_doc)]

\* One iteration of the loop of SearchEngine.__init__ on a file that ends
\* with the extension.
AddFile(e, path, content) ==
    LET new_doc == Document(path, content)
        d       == Len(e.docs) + 1
    IN  [count     |-> e.count + 1,
         all_index |-> IndexWords(e.all_index, get_words(new_doc), d),
         docs      |-> Append(e.docs, new_doc)]

\* _calculate_idf without the membership test, the list of an absent term
\* taken as empty.
calculate_idfUnguarded(e, term) ==
    LET docs == IF term \in DOMAIN e.all_index THEN e.all_index[term] ELSE <<>>
    IN  IF Len(docs) = 0 \/ e.count = 0
        THEN [raised |-> TRUE, val |-> 0]
        ELSE [raised |-> FALSE, val |-> Log(e.count, Len(docs))]

\* SearchEngine._calculate_idf(term): the value in millionths, or raised when
\* the division is by zero or the logarithm is of zero.
calculate_idf(e, term) ==
    IF term \in DOMAIN e.all_index
    THEN IF Len(e.all_index[term]) = 0 \/ e.count = 0
         THEN [raised |-> TRUE, val |-> 0]
         ELSE [raised |-> FALSE, val |-> Log(e.count, Len(e.all_index[term]))]
    ELSE [raised |-> FALSE, val |-> 0]

\* query_terms of search.
QueryTerms(query) ==
    LET ws == Split(query)
    IN  [i \in DOMAIN ws |-> clean(ws[i])]

\* matching_docs assigned, not updated, at each term: the last term wins.
MatchingDocsLastTerm(e, query_terms) ==
    IF query_terms # <<>> /\ query_terms[Len(query_terms)] \in DOMAIN e.all_index
    THEN Range(e.all_index[query_terms[Len(query_terms)]])
    ELSE {}

\* matching_docs of search.
MatchingDocs(e, query_terms) ==
    UNION { Range(e.all_index[t]) : t \in Range(query_terms) \cap DOMAIN e.all_index }

\* sum() over a sequence of fractions, from the left.
RECURSIVE FracSum(_)
FracSum(xs) ==
    IF xs = <<>> THEN FracZero
    ELSE FracAdd(FracSum(SubSeq(xs, 1, Len(xs) - 1)), xs[Len(xs)])

\* total_score of search for the document d.
TotalScore(e, query_terms, d) ==
    FracSum([i \in DOMAIN query_terms |->
                FracScale(calculate_idf(e, query_terms[i]).val,
                          term_frequency(e.docs[d], query_terms[i]))])

\* sorted() without reverse=True.
InsertAsc(sorted, item) ==
    LET p == Cardinality({ i \in DOMAIN sorted : ~ FracLess(item.score, sorted[i].score) })
    IN  SubSeq(sorted, 1, p) \o <<item>> \o SubSeq(sorted, p + 1, Len(sorted))

\* No sort at all.
Unsorted(items) == items

\* sorted(..., reverse=True) on a sequence of [doc, score]: a stable sort,
\* so that items with equal scores keep the order they came in.
InsertDesc(sorted, item) ==
    LET p == Cardinality({ i \in DOMAIN sorted : ~ FracLess(sorted[i].score, item.score) })
    IN  SubSeq(sorted, 1, p) \o <<item>> \o SubSeq(sorted, p + 1, Len(sorted))

RECURSIVE SortedDesc(_)
SortedDesc(items) ==
    IF items = <<>> THEN <<>>
    ELSE InsertDesc(SortedDesc(SubSeq(items, 1, Len(items) - 1)), items[Len(items)])

\* The orders in which iterating over a set of Document objects can yield
\* them: the objects hash by address, so any order is possible.
RECURSIVE IterationOrders(_)
IterationOrders(S) ==
    IF S = {} THEN { <<>> }
    ELSE UNION { { <<d>> \o rest : rest \in IterationOrders(S \ {d}) } : d \in S }

\* big_list of search: the score of each matching document.  The order of
\* its keys, the order in which matching_docs was iterated, is kept apart.
big_list(e, query) ==
    [d \in MatchingDocs(e, QueryTerms(query)) |-> TotalScore(e, QueryTerms(query), d)]

\* What search returns from big_list filled in the given order: the paths
\* of sorted_docs.
SortedPaths(e, scores, order) ==
    LET sorted_docs == SortedDesc([i \in DOMAIN order |->
                                      [doc |-> order[i], score |-> scores[order[i]]]])
    IN  [i \in DOMAIN sorted_docs |-> e.docs[sorted_docs[i].doc].path]

\* search(query), matching_docs being iterated in the given order.
search(e, query, order) == SortedPaths(e, big_list(e, query), order)

\* search raises: the scoring loop runs and _calculate_idf raises.
SearchRaises(e, query) ==
    /\ MatchingDocs(e, QueryTerms(query)) # {}
    /\ \E t \in Range(QueryTerms(query)) : calculate_idf(e, t).raised

(***************************************************************************)
(* The state.                                                              *)
(***************************************************************************)
VARIABLES
    engine,     \* the SearchEngine under construction, then in use
    rebuilt,    \* a second SearchEngine constructed from the same directory
    listed,     \* how many names of os.listdir(path) the loop of __init__ has handled
    pc,         \* "init" while __init__ runs, "ready" once it has returned
    out,        \* the last call on engine and what it returned
    out2,       \* what the same search returned on rebuilt
    token,      \* the argument of clean
    cleaned     \* what clean returned

vars == <<engine, rebuilt, listed, pc, out, out2, token, cleaned>>

NoOut ==
    [op |-> "none", arg |-> <<>>, doc |-> 0, raised |-> FALSE,
     paths |-> <<>>, val |-> 0, freq |-> FracZero]

NotCleaned == [done |-> FALSE, val |-> <<>>]

Init ==
    /\ engine = EmptyEngine
    /\ rebuilt = EmptyEngine
    /\ listed = 0
    /\ pc = "init"
    /\ out = NoOut
    /\ out2 = NoOut
    /\ token = <<>>
    /\ cleaned = NotCleaned

\* The number of words in the files read so far.
RECURSIVE CorpusWords(_)
CorpusWords(docs) ==
    IF docs = <<>> THEN 0
    ELSE Len(docs[Len(docs)].words) + CorpusWords(SubSeq(docs, 1, Len(docs) - 1))

\* __init__ meets a file name that ends with the extension: the file is
\* read and indexed.  The path of a file is its rank among the files read,
\* and the directory holds at most MaxCorpusWords words.
IndexFile(content) ==
    /\ pc = "init"
    /\ listed < MaxFiles
    /\ CorpusWords(engine.docs) + Len(Split(content)) <= MaxCorpusWords
    /\ listed' = listed + 1
    /\ engine' = AddFile(engine, Len(engine.docs) + 1, content)
    /\ rebuilt' = AddFile(rebuilt, Len(rebuilt.docs) + 1, content)
    /\ UNCHANGED <<pc, out, out2, token, cleaned>>

\* __init__ meets a file name that does not end with the extension.
SkipFile ==
    /\ pc = "init"
    /\ listed < MaxFiles
    /\ listed' = listed + 1
    /\ UNCHANGED <<engine, rebuilt, pc, out, out2, token, cleaned>>

\* os.listdir is exhausted and __init__ returns; its loop is left.
EndInit ==
    /\ pc = "init"
    /\ pc' = "ready"
    /\ listed' = 0
    /\ UNCHANGED <<engine, rebuilt, out, out2, token, cleaned>>

\* Everything e.search(query) can return: one result for each order in which
\* matching_docs can be iterated.
SearchOuts(e, query) ==
    IF SearchRaises(e, query)
    THEN { [NoOut EXCEPT !.op = "search", !.arg = query, !.raised = TRUE] }
    ELSE LET scores == big_list(e, query)
         IN  { [NoOut EXCEPT !.op = "search", !.arg = query,
                             !.paths = SortedPaths(e, scores, order)] :
                 order \in IterationOrders(DOMAIN scores) }

\* search written with all_index.setdefault(term, []): a term that is not
\* indexed gets an empty entry.
SearchSetDefault(query) ==
    /\ pc = "ready"
    /\ out.op = "none"
    /\ out' \in SearchOuts(engine, query)
    /\ engine' = [engine EXCEPT !.all_index =
                     [t \in DOMAIN engine.all_index \cup Range(QueryTerms(query)) |->
                         IF t \in DOMAIN engine.all_index THEN engine.all_index[t] ELSE <<>>]]
    /\ UNCHANGED <<rebuilt, listed, pc, out2, token, cleaned>>

\* engine.search(query)
Search(query) ==
    /\ pc = "ready"
    /\ out.op = "none"
    /\ out' \in SearchOuts(engine, query)
    /\ UNCHANGED <<engine, rebuilt, listed, pc, out2, token, cleaned>>

\* engine._calculate_idf(term)
CalculateIdf(term) ==
    /\ pc = "ready"
    /\ out.op = "none"
    /\ out' = [NoOut EXCEPT !.op = "idf", !.arg = term,
                            !.raised = calculate_idf(engine, term).raised,
                            !.val = calculate_idf(engine, term).val]
    /\ UNCHANGED <<engine, rebuilt, listed, pc, out2, token, cleaned>>

\* engine's d-th document .term_frequency(term)
TermFrequency(d, term) ==
    /\ pc = "ready"
    /\ out.op = "none"
    /\ d \in DOMAIN engine.docs
    /\ out' = [NoOut EXCEPT !.op = "tf", !.arg = term, !.doc = d,
                            !.freq = term_frequency(engine.docs[d], term)]
    /\ UNCHANGED <<engine, rebuilt, listed, pc, out2, token, cleaned>>

\* The same query searched on engine and on rebuilt, as the example run
\* would on two engines constructed from the same directory.
SearchBoth(query) ==
    /\ pc = "ready"
    /\ out.op = "none"
    /\ LET outs  == SearchOuts(engine, query)
           outs2 == SearchOuts(rebuilt, query)
       IN  /\ out' \in outs
           /\ out2' \in outs2
    /\ UNCHANGED <<engine, rebuilt, listed, pc, token, cleaned>>

\* The caller takes what the call returned; the next call can follow.
Return ==
    /\ out.op # "none"
    /\ out' = NoOut
    /\ out2' = NoOut
    /\ UNCHANGED <<engine, rebuilt, listed, pc, token, cleaned>>

Next ==
    \/ \E content \in Contents : IndexFile(content)
    \/ SkipFile
    \/ EndInit
    \/ \E query \in Queries : Search(query)
    \/ \E term \in Terms : CalculateIdf(term)
    \/ \E d \in 1..MaxFiles, term \in Words : TermFrequency(d, term)
    \/ Return

Spec == Init /\ [][Next]_vars

\* Two engines constructed from one directory and searched with one query.
NextRebuild ==
    \/ \E content \in Contents : IndexFile(content)
    \/ SkipFile
    \/ EndInit
    \/ \E query \in Queries : SearchBoth(query)
    \/ Return

SpecRebuild == Init /\ [][NextRebuild]_vars

\* clean applied to any token.
InitClean ==
    /\ engine = EmptyEngine
    /\ rebuilt = EmptyEngine
    /\ listed = 0
    /\ pc = "init"
    /\ out = NoOut
    /\ out2 = NoOut
    /\ token \in Tokens
    /\ cleaned = NotCleaned

Clean ==
    /\ ~ cleaned.done
    /\ cleaned' = [done |-> TRUE, val |-> clean(token)]
    /\ UNCHANGED <<engine, rebuilt, listed, pc, out, out2, token>>

NextClean == Clean

SpecClean == InitClean /\ [][NextClean]_vars

(***************************************************************************)
(* What the claims speak of, taken from the documents themselves.          *)
(***************************************************************************)
\* The documents whose vocabulary contains the term t.
Containing(e, t) == { d \in DOMAIN e.docs : t \in DOMAIN e.docs[d].term_freq }

\* The document with the given path.
DocAt(e, path) == CHOOSE d \in DOMAIN e.docs : e.docs[d].path = path

\* ln(documentCount / number of documents containing t), 0 when there is none.
IdfOf(e, t) ==
    IF Containing(e, t) = {} THEN 0
    ELSE Log(Len(e.docs), Cardinality(Containing(e, t)))

\* The frequency of t in the document d, 0 when d does not contain it.
FreqOf(e, d, t) ==
    IF t \in DOMAIN e.docs[d].term_freq THEN e.docs[d].term_freq[t] ELSE FracZero

\* score(d): the sum over the query's terms, with multiplicity.
RECURSIVE ScoreOf(_, _, _)
ScoreOf(e, d, terms) ==
    IF terms = <<>> THEN FracZero
    ELSE FracAdd(FracScale(IdfOf(e, Head(terms)), FreqOf(e, d, Head(terms))),
                 ScoreOf(e, d, Tail(terms)))

RECURSIVE FracSumOver(_, _)
FracSumOver(f, S) ==
    IF S = {} THEN FracZero
    ELSE LET t == CHOOSE x \in S : TRUE
         IN  FracAdd(f[t], FracSumOver(f, S \ {t}))

NoDuplicates(s) == \A i, j \in DOMAIN s : i # j => s[i] # s[j]

\* C1: search returns, without duplicates, exactly the paths of the documents
\* whose vocabulary contains at least one normalized query term, and every
\* path it returns is the path of a document that was built.
C1_SearchReturnsMatches ==
    out.op = "search" =>
        LET terms == Range(QueryTerms(out.arg))
            hits  == { d \in DOMAIN engine.docs : get_words(engine.docs[d]) \cap terms # {} }
        IN  /\ ~ out.raised
            /\ NoDuplicates(out.paths)
            /\ Range(out.paths) = { engine.docs[d].path : d \in hits }
            /\ Range(out.paths) \subseteq { engine.docs[d].path : d \in DOMAIN engine.docs }

\* A search where one document matches two query terms, another matches one
\* and a third matches none.
C1_Witness ==
    /\ out.op = "search"
    /\ Len(out.paths) = 2
    /\ Len(engine.docs) = 3
    /\ \E d \in DOMAIN engine.docs :
          Cardinality(get_words(engine.docs[d]) \cap Range(QueryTerms(out.arg))) = 2

\* C2: the paths search returns are in descending order of score, the score
\* of a document being the sum over the query terms, with multiplicity, of
\* idf(t) * termFrequency(t).
C2_DescendingScore ==
    out.op = "search" =>
        LET terms == QueryTerms(out.arg)
        IN  \A i \in 1..(Len(out.paths) - 1) :
                ~ FracLess(ScoreOf(engine, DocAt(engine, out.paths[i]), terms),
                           ScoreOf(engine, DocAt(engine, out.paths[i + 1]), terms))

\* A search of two terms that returns two documents, the first with a
\* strictly higher score, though it was created after the second.
C2_Witness ==
    /\ out.op = "search"
    /\ Len(QueryTerms(out.arg)) = 2
    /\ Len(out.paths) = 2
    /\ out.paths[1] > out.paths[2]
    /\ FracLess(ScoreOf(engine, DocAt(engine, out.paths[2]), QueryTerms(out.arg)),
                ScoreOf(engine, DocAt(engine, out.paths[1]), QueryTerms(out.arg)))

\* C3: idf normalizes its argument before the lookup: idf(s) is
\* ln(documentCount / |invertedIndex[normalize(s)]|) when normalize(s) is
\* indexed, and 0 otherwise.
C3_IdfNormalizesArgument ==
    out.op = "idf" =>
        out.val = IF clean(out.arg) \in DOMAIN engine.all_index
                  THEN Log(engine.count, Len(engine.all_index[clean(out.arg)]))
                  ELSE 0

AsciiAlnum == {"a", "b", "A", "B", "1"}

\* C4, as stated: the result of normalize contains only characters in
\* [a-z0-9], and is empty when the token has no ASCII letter or digit.
C4_OnlyAsciiAlnum ==
    cleaned.done =>
        /\ \A i \in DOMAIN cleaned.val : cleaned.val[i] \in {"a", "b", "1"}
        /\ (\A i \in DOMAIN token : token[i] \notin AsciiAlnum) => cleaned.val = <<>>

\* C4, amended: the result of normalize contains only word characters
\* (letters, digits, underscore; non-ASCII letters included), none of them an
\* ASCII upper-case letter; it keeps one character for each word character of
\* the token, and so is empty exactly when the token has none.
C4_OnlyLoweredWordChars ==
    cleaned.done =>
        LET kept == { i \in DOMAIN token : token[i] \notin {"!", "?", Space} }
        IN  /\ \A i \in DOMAIN cleaned.val :
                  cleaned.val[i] \in {"a", "b", "1", "_", "e/", "E/"}
            /\ Len(cleaned.val) = Cardinality(kept)
            /\ cleaned.val = <<>> <=> kept = {}

\* clean applied to an underscore next to an upper-case letter.
C4_Witness ==
    /\ cleaned.done
    /\ \E i \in DOMAIN token : token[i] = "_"
    /\ \E i \in DOMAIN token : token[i] \in {"A", "B", "E/"}
    /\ Len(cleaned.val) = 2

\* C5: in every document the frequency of a term t is the number of words
\* that normalize to t over max(1, number of words), the words that
\* normalize to the empty string counted in the denominator; each frequency
\* is in (0, 1] and the frequencies of a document sum to at most 1.
C5_TermFrequency ==
    \A d \in DOMAIN engine.docs :
        LET doc   == engine.docs[d]
            total == IF Len(doc.words) = 0 THEN 1 ELSE Len(doc.words)
            sum   == FracSumOver(doc.term_freq, DOMAIN doc.term_freq)
        IN  /\ \A t \in DOMAIN doc.term_freq :
                 LET n == Cardinality({ i \in DOMAIN doc.words : clean(doc.words[i]) = t })
                 IN  /\ doc.term_freq[t].n * total = n * doc.term_freq[t].d
                     /\ 0 < doc.term_freq[t].n
                     /\ doc.term_freq[t].n <= doc.term_freq[t].d
            /\ sum.n <= sum.d

\* A document with a word that is discarded and a term of frequency 1/2.
C5_Witness ==
    \E d \in DOMAIN engine.docs :
        /\ \E i \in DOMAIN engine.docs[d].words : clean(engine.docs[d].words[i]) = <<>>
        /\ \E t \in DOMAIN engine.docs[d].term_freq :
              engine.docs[d].term_freq[t] = [n |-> 1, d |-> 2]

\* C6: no query raises; on the empty corpus search returns the empty list
\* and idf 0; a query none of whose terms is in a document (the empty query,
\* a query of words that normalize to the empty string, a query that matches
\* nothing) returns the empty list; no list of the index is empty.
C6_NoFailure ==
    /\ ~ out.raised
    /\ (out.op = "search" /\ engine.count = 0) => out.paths = <<>>
    /\ (out.op = "idf" /\ engine.count = 0) => out.val = 0
    /\ (out.op = "search"
          /\ \A t \in Range(QueryTerms(out.arg)) : Containing(engine, t) = {})
        => out.paths = <<>>
    /\ \A t \in DOMAIN engine.all_index : Len(engine.all_index[t]) > 0

\* A search, in a corpus with a document, of words that all normalize to the
\* empty string.
C6_Witness ==
    /\ out.op = "search"
    /\ engine.count > 0
    /\ out.arg # <<>>
    /\ \A t \in Range(QueryTerms(out.arg)) : t = <<>>

\* C7: idf is 0 for a term in no document and for a term in every document,
\* positive for a term in some but not all documents; two indexed terms in
\* equally many documents have the same idf, and a term in fewer documents
\* has the strictly higher idf.
C7_IdfByDocumentCount ==
    /\ out.op = "idf" =>
          LET k == Cardinality(Containing(engine, out.arg))
          IN  /\ k = 0 => out.val = 0
              /\ k = Len(engine.docs) => out.val = 0
              /\ (0 < k /\ k < Len(engine.docs)) => out.val > 0
    /\ \A a, b \in DOMAIN engine.all_index :
          /\ Len(engine.all_index[a]) = Len(engine.all_index[b])
                => calculate_idf(engine, a).val = calculate_idf(engine, b).val
          /\ Len(engine.all_index[a]) < Len(engine.all_index[b])
                => calculate_idf(engine, a).val > calculate_idf(engine, b).val

\* idf of a term in one of three documents, another term being in two.
C7_Witness ==
    /\ out.op = "idf"
    /\ Len(engine.docs) = 3
    /\ Cardinality(Containing(engine, out.arg)) = 1
    /\ \E b \in DOMAIN engine.all_index : Len(engine.all_index[b]) = 2

\* C8, as stated: a corpus rebuilt from the same input returns for any query
\* the same paths in the same order, documents of equal score included.
C8_RebuildSameOrder ==
    (out.op = "search" /\ out2.op = "search") => out.paths = out2.paths

\* C8, amended: the two corpora return the same set of paths, and at every
\* position of the two results documents of the same score; the order of
\* documents of equal score is not determined.
C8_RebuildSameUpToTies ==
    (out.op = "search" /\ out2.op = "search") =>
        LET terms == QueryTerms(out.arg)
        IN  /\ Range(out.paths) = Range(out2.paths)
            /\ Len(out.paths) = Len(out2.paths)
            /\ \A i \in DOMAIN out.paths :
                  ScoreOf(engine, DocAt(engine, out.paths[i]), terms)
                    = ScoreOf(rebuilt, DocAt(rebuilt, out2.paths[i]), terms)

\* The two corpora return three documents, two of them of equal score, in
\* different orders.
C8_Witness ==
    /\ out.op = "search"
    /\ out2.op = "search"
    /\ Len(out.paths) = 3
    /\ out.paths # out2.paths
    /\ out.paths[1] = out2.paths[1]

\* C9: once the corpus is built, a term is a key of the index iff some
\* document has it with nonzero frequency; the empty string is no key; the
\* entry of a term holds each document containing it exactly once and no
\* other; its length is at most count, the number of documents built.
C9_IndexInvariant ==
    pc = "ready" =>
        /\ engine.count = Len(engine.docs)
        /\ <<>> \notin DOMAIN engine.all_index
        /\ \A t \in DOMAIN engine.all_index \cup Terms :
              t \in DOMAIN engine.all_index
                <=> \E d \in DOMAIN engine.docs :
                       /\ t \in DOMAIN engine.docs[d].term_freq
                       /\ engine.docs[d].term_freq[t].n > 0
        /\ \A t \in DOMAIN engine.all_index :
              /\ NoDuplicates(engine.all_index[t])
              /\ Range(engine.all_index[t]) = Containing(engine, t)
              /\ Len(engine.all_index[t]) <= engine.count

\* A built corpus holding a document in which a term occurs twice and a
\* document with a word that is discarded.
C9_Witness ==
    /\ pc = "ready"
    /\ \E d \in DOMAIN engine.docs :
          \E t \in DOMAIN engine.docs[d].term_freq :
              Cardinality({ i \in DOMAIN engine.docs[d].words :
                               clean(engine.docs[d].words[i]) = t }) = 2
    /\ \E d \in DOMAIN engine.docs :
          \E i \in DOMAIN engine.docs[d].words : clean(engine.docs[d].words[i]) = <<>>

\* C10: a query changes neither count, nor the index, nor a document.
C10_QueriesReadOnly == [][pc = "ready" => engine' = engine]_vars

\* A search for a term that is in no document has returned.
C10_Witness ==
    /\ out.op = "search"
    /\ engine.count > 0
    /\ \E t \in Range(QueryTerms(out.arg)) : t # <<>> /\ t \notin DOMAIN engine.all_index

====
